---- MODULE Spec2Model ----
(***************************************************************************)
(* Flow transpiler: the element-graph traversal engine                     *)
(* (ElementChainProcessor), the decision / loop / start / assignment       *)
(* renderers that recurse through it, and the output model (LineBuilder    *)
(* with its IndentationManager).                                           *)
(*                                                                         *)
(* The recursive Python traversal is modelled as a machine with an         *)
(* explicit call stack: one frame per active call of process_chain,        *)
(* DecisionProcessor._process_impl, LoopProcessor._process_impl,           *)
(* AssignmentProcessor._process_impl and StartProcessor._process_impl.     *)
(* A raised exception is the variable exc; it unwinds one frame per step   *)
(* and runs exactly the finally blocks the source has.                     *)
(*                                                                         *)
(* Spec is one transpilation on a fresh service, SpecReuse any number of   *)
(* them on one service, SpecBuilder the LineBuilder interface called in    *)
(* any order, SpecLoopVar the two loop-variable derivations.               *)
(***************************************************************************)
EXTENDS Integers, Sequences, FiniteSets, TLC

VARIABLES
    graph,   \* the parsed flow: start element and element map (input, fixed per run)
    phase,   \* "init" | "running" | "done" | "failed"  (position in transpile_flow / main)
    stack,   \* call stack of the traversal, innermost frame last
    exc,     \* exception being propagated, NoExc when none
    lb,      \* LineBuilder (with IndentationManager.level folded in)
    cp,      \* ElementChainProcessor tracking state
    vt,      \* FlowVariableTracker
    log,     \* history: what the run did, in order (renderer fired, edge followed, ...)
    doc,     \* the rendered document returned by transpile_flow, <<>> until then
    collection,  \* a collection name, as characters (input of the loop-variable derivations)
    derived      \* the loop variables derived from it, NotDerived until then

vars == <<graph, phase, stack, exc, lb, cp, vt, log, doc, collection, derived>>

-----------------------------------------------------------------------------
(* Small helpers *)

None == "<None>"
NoExc == "<none>"

Last(s) == s[Len(s)]
Front(s) == SubSeq(s, 1, Len(s) - 1)
Max(a, b) == IF a >= b THEN a ELSE b
Min(a, b) == IF a <= b THEN a ELSE b

\* list.insert(pos0, x) with a 0-based position, as Python
InsertAt(s, pos0, x) == SubSeq(s, 1, pos0) \o <<x>> \o SubSeq(s, pos0 + 1, Len(s))

EmptyMap == [x \in {} |-> <<>>]
Put(f, k, v) == [x \in DOMAIN f \cup {k} |-> IF x = k THEN v ELSE f[x]]

RECURSIVE SeqToSet(_)
SeqToSet(s) == IF s = <<>> THEN {} ELSE {s[1]} \cup SeqToSet(SubSeq(s, 2, Len(s)))

-----------------------------------------------------------------------------
(* Output lines.  A line is its kind k, the name n its text is about (for a  *)
(* "}" or "} else {": the element that wrote it), and ind: the number of     *)
(* indentation units already baked into its text.                            *)

Line(k, n) == [k |-> k, n |-> n, ind |-> 0]

\* line.strip() == "": a blank line stays blank however many spaces precede it
IsBlank(l) == l.k = "blank"

\* number of "{" and of "}" in the text of a structural line
Opens(l) == IF l.k \in {"if", "elseif", "else", "try", "catch", "for", "mhead"} THEN 1 ELSE 0
Closes(l) == IF l.k \in {"elseif", "else", "catch", "close"} THEN 1 ELSE 0

-----------------------------------------------------------------------------
(* LineBuilder / IndentationManager *)

LB_init ==
    [ lines |-> <<>>, indentation_levels |-> <<>>, level |-> 0,
      formatted |-> FALSE, current_method |-> None, method_stack |-> <<>>,
      method_order |-> <<>>, methods |-> EmptyMap,
      method_indentation_levels |-> EmptyMap, method_return_types |-> EmptyMap,
      method_mode_only |-> FALSE, raised |-> FALSE ]

\* the guard of the RuntimeError in LineBuilder.add
add_rejects(b) == b.method_mode_only /\ b.current_method = None

\* LineBuilder.add; raised records that the call ended in RuntimeError
add(b, line) ==
    IF add_rejects(b) THEN [b EXCEPT !.formatted = FALSE, !.raised = TRUE]
    ELSE IF b.current_method # None THEN
        LET m == b.current_method
            old == IF m \in DOMAIN b.methods THEN b.methods[m] ELSE <<>>
            oldl == IF m \in DOMAIN b.methods THEN b.method_indentation_levels[m] ELSE <<>>
        IN [b EXCEPT !.formatted = FALSE,
                     !.methods = Put(@, m, Append(old, line)),
                     !.method_indentation_levels = Put(@, m, Append(oldl, b.level)),
                     !.method_order = IF m \in DOMAIN b.methods THEN @ ELSE Append(@, m)]
    ELSE [b EXCEPT !.formatted = FALSE,
                   !.lines = Append(@, line),
                   !.indentation_levels = Append(@, b.level)]

RECURSIVE add_all(_, _)
add_all(b, ls) == IF ls = <<>> THEN b ELSE add_all(add(b, ls[1]), SubSeq(ls, 2, Len(ls)))

add_comment(b, text) == add(b, Line("comment", text))
add_blank(b) == add(b, Line("blank", ""))

begin_block(b) == [b EXCEPT !.level = @ + 1]
end_block_kept_open(b) == b
end_block(b) == [b EXCEPT !.level = Max(0, @ - 1)]

new_method(b, name, rtype) ==
    [b EXCEPT !.method_stack = IF b.current_method # None
                               THEN Append(@, [m |-> b.current_method, lvl |-> b.level])
                               ELSE @,
              !.level = 0,
              !.method_mode_only = TRUE,
              !.current_method = name,
              !.method_order = IF name \in DOMAIN b.methods THEN @ ELSE Append(@, name),
              !.methods = IF name \in DOMAIN @ THEN @ ELSE Put(@, name, <<>>),
              !.method_indentation_levels = IF name \in DOMAIN @ THEN @ ELSE Put(@, name, <<>>),
              !.method_return_types = IF name \in DOMAIN @ THEN @ ELSE Put(@, name, rtype)]

end_method(b) ==
    IF b.method_stack # <<>>
    THEN [b EXCEPT !.current_method = Last(b.method_stack).m,
                   !.level = Last(b.method_stack).lvl,
                   !.method_stack = Front(@)]
    ELSE [b EXCEPT !.current_method = None]

\* IndentationManager.format_lines: zip(lines, levels), blank lines untouched
format_lines(ls, lvls) ==
    [i \in 1..Min(Len(ls), Len(lvls)) |->
        IF IsBlank(ls[i]) THEN ls[i] ELSE [ls[i] EXCEPT !.ind = @ + lvls[i]]]

\* one method rendered as a block: header (rt is the return type it names),
\* body indented once more, "}", blank
method_block(b, name) ==
    LET body == format_lines(b.methods[name], b.method_indentation_levels[name])
    IN <<[k |-> "mhead", n |-> name, ind |-> 0, rt |-> b.method_return_types[name]]>>
       \o [i \in 1..Len(body) |-> [body[i] EXCEPT !.ind = @ + 1]]
       \o <<Line("close", ""), Line("blank", "")>>

RECURSIVE method_blocks(_, _)
method_blocks(b, names) ==
    IF names = <<>> THEN <<>>
    ELSE method_block(b, names[1]) \o method_blocks(b, SubSeq(names, 2, Len(names)))

\* LineBuilder.get_formatted_lines: returns the builder after the call;
\* the document returned is its lines
get_formatted_lines(b) ==
    IF b.formatted THEN b
    ELSE [b EXCEPT !.lines = format_lines(b.lines, b.indentation_levels)
                             \o method_blocks(b, b.method_order),
                   !.formatted = TRUE]

\* the buffer LineBuilder.add currently writes to (decision_processor.py:105)
buffer_len(b, m) ==
    IF m = None THEN Len(b.lines)
    ELSE IF m \in DOMAIN b.methods THEN Len(b.methods[m]) ELSE 0

-----------------------------------------------------------------------------
(* The parsed flow *)

NoConn == [has |-> FALSE, ref |-> FALSE, target |-> "", isGoTo |-> FALSE]
\* a connector element without a targetReference child
NoRefConn == [has |-> TRUE, ref |-> FALSE, target |-> "", isGoTo |-> FALSE]
Conn(t, g) == [has |-> TRUE, ref |-> TRUE, target |-> t, isGoTo |-> g]

NoText == [has |-> FALSE, text |-> ""]
Text(t) == [has |-> TRUE, text |-> t]

Elem(kind) ==
    [ kind |-> kind, object |-> TRUE, outputReference |-> NoText,
      outputAssignments |-> <<>>, rules |-> <<>>,
      connector |-> NoConn, defaultConnector |-> NoConn, faultConnector |-> NoConn,
      nextValueConnector |-> NoConn, noMoreValuesConnector |-> NoConn,
      collectionReference |-> NoText ]

Rule(cond, conn) == [cond |-> cond, connector |-> conn]

\* the element types FlowTranspilerService registers a processor for
Registered ==
    { "start", "actionCalls", "decisions", "loops", "subflows", "recordLookups",
      "recordUpdates", "recordCreates", "assignments", "formulas", "screens" }

\* the element map finds a target by name in any bucket
find_target_element(name) == name \in DOMAIN graph.elems

\* every connector / defaultConnector descendant of an element (findall(".//...")):
\* its own two and the connectors of its rules; fault, nextValue and noMoreValues
\* connectors carry other tags
scanned_connectors(e) ==
    {e.connector, e.defaultConnector} \cup {e.rules[i].connector : i \in DOMAIN e.rules}

scan_for_goto_targets(g) ==
    { c.target : c \in { c \in UNION { scanned_connectors(g.elems[x]) : x \in DOMAIN g.elems } :
                          c.has /\ c.ref /\ c.isGoTo } }

-----------------------------------------------------------------------------
(* ElementChainProcessor state *)

CP_init ==
    [ processed_elements |-> {}, current_path |-> <<>>, loop_stack |-> <<>>,
      goto_targets |-> {}, goto_methods |-> {} ]

is_in_loop(c) == Len(c.loop_stack) > 0

get_current_loop_var(c) == IF c.loop_stack = <<>> THEN None ELSE Last(c.loop_stack).loop_var

push_loop_context(c, id, var, coll) ==
    [c EXCEPT !.loop_stack = Append(@, [loop_id |-> id, loop_var |-> var, collection |-> coll])]

pop_loop_context(c) ==
    IF c.loop_stack # <<>> THEN [c EXCEPT !.loop_stack = Front(@)] ELSE c

\* a variant that promotes any element not promoted yet, goto target or not
should_create_method_any(c, name) == name \notin c.goto_methods

\* _should_create_method: a goto target not promoted yet
should_create_method(c, name) == name \in c.goto_targets /\ name \notin c.goto_methods

\* a variant that lets a processed element through inside a loop other than
\* itself
check_for_cycles_lenient(c, id) ==
    IF is_in_loop(c) /\ id = Last(c.loop_stack).loop_id THEN FALSE
    ELSE IF id \in c.processed_elements THEN is_in_loop(c) ELSE TRUE

\* TRUE when the element may be processed, FALSE when process_chain must stop
check_for_cycles(c, id) ==
    IF is_in_loop(c) /\ id = Last(c.loop_stack).loop_id THEN FALSE
    ELSE IF id \in c.processed_elements
         THEN IF is_in_loop(c)
              THEN (IF id # Last(c.loop_stack).loop_id THEN FALSE ELSE TRUE)
              ELSE FALSE
         ELSE TRUE

\* _analyze_function_returns: only record lookups contribute, their
\* outputReference first, then the assignToReference of every outputAssignments
analyze_function_returns(e) ==
    IF e.kind = "recordLookups"
    THEN (IF e.outputReference.has THEN <<e.outputReference.text>> ELSE <<>>)
            \o e.outputAssignments
    ELSE <<>>

\* the test the generic connector code applies to a target found in the map
already_promoted(c, name) == name \in c.goto_targets /\ name \in c.goto_methods

\* what _process_connector does with one connector element
connector_outcome(c, conn) ==
    IF ~(conn.has /\ conn.ref) THEN "none"
    ELSE IF conn.isGoTo THEN "call"
    ELSE IF ~find_target_element(conn.target) THEN "missing"
    ELSE IF already_promoted(c, conn.target) THEN "call"
    ELSE "chain"

\* what the decision, loop, start and assignment renderers do with a connector:
\* isGoTo and the promoted set are not consulted
renderer_outcome(conn) ==
    IF conn.has /\ conn.ref /\ find_target_element(conn.target) THEN "chain" ELSE "none"

-----------------------------------------------------------------------------
(* FlowVariableTracker *)

VT_init == [variables |-> EmptyMap, loop_mappings |-> EmptyMap]

get_type(v, name) ==
    IF name \in DOMAIN v.variables THEN v.variables[name] ELSE [list |-> FALSE, base |-> None]
add_variable(v, name, type) == [v EXCEPT !.variables = Put(@, name, type)]
add_loop_mapping(v, loop, var) == [v EXCEPT !.loop_mappings = Put(@, loop, var)]

-----------------------------------------------------------------------------
(* Strings as character sequences, for the code that indexes into a name *)

Chars(name) ==
    CASE name = "Linked_Leads" -> <<"L", "i", "n", "k", "e", "d", "_", "L", "e", "a", "d", "s">>
      [] name = "Accounts" -> <<"A", "c", "c", "o", "u", "n", "t", "s">>
      [] name = "_Q" -> <<"_", "Q">>
      [] name = "__" -> <<"_", "_">>
      [] name = "" -> <<>>
      [] OTHER -> <<name>>

\* str.lower() on one character
LowerChar(ch) ==
    CASE ch = "A" -> "a" [] ch = "B" -> "b" [] ch = "C" -> "c" [] ch = "D" -> "d"
      [] ch = "L" -> "l" [] ch = "Q" -> "q" [] OTHER -> ch

Lower(cs) == [i \in 1..Len(cs) |-> LowerChar(cs[i])]

\* str.replace("_", "")
RECURSIVE StripUnderscores(_)
StripUnderscores(cs) ==
    IF cs = <<>> THEN <<>>
    ELSE IF cs[1] = "_" THEN StripUnderscores(SubSeq(cs, 2, Len(cs)))
    ELSE <<cs[1]>> \o StripUnderscores(SubSeq(cs, 2, Len(cs)))

IndexError == "IndexError"

\* a variant that takes the first character without removing underscores
generate_loop_variable_name_unstripped(cs) ==
    IF cs = <<>> THEN IndexError ELSE LowerChar(cs[1])

\* LoopProcessor._generate_loop_variable_name: base_name[0] raises on an empty base
generate_loop_variable_name(cs) ==
    LET base_name == StripUnderscores(cs)
    IN IF base_name = <<>> THEN IndexError ELSE LowerChar(base_name[1])

\* AssignmentProcessor._get_loop_variable, the branch taken outside a loop
get_loop_variable_fallback(cs) ==
    LET stripped == StripUnderscores(Lower(cs))
    IN IF stripped = <<>> THEN IndexError ELSE stripped[1]

\* ElementChainProcessor._process_element, the loop_var of its `loop` branch
chain_loop_var(cs) == IF cs = <<>> THEN "item" ELSE LowerChar(cs[1])

-----------------------------------------------------------------------------
(* Types of the variable tracker: List<base> or base *)

NoType == [list |-> FALSE, base |-> None]
ListOf(t) == [list |-> TRUE, base |-> t]
Plain(t) == [list |-> FALSE, base |-> t]

\* LoopProcessor._determine_collection_type: <<element type name, tracker after>>
determine_collection_type(v, g, coll) ==
    LET t == get_type(v, coll)
    IN IF t # NoType THEN [type |-> t.base, vt |-> v]
       ELSE IF coll \in DOMAIN g.elems /\ g.elems[coll].kind = "recordLookups"
               /\ g.elems[coll].object
            THEN [type |-> "Obj", vt |-> add_variable(v, coll, ListOf("Obj"))]
            ELSE [type |-> "SObject", vt |-> v]

-----------------------------------------------------------------------------
(* Call stack *)

\* what a call can see of the builder and the tracker when it is entered
Snap(b, c) ==
    [ cm |-> b.current_method, ms |-> b.method_stack, lvl |-> b.level,
      ls |-> c.loop_stack, path |-> c.current_path ]

\* a frame: function fn at position pc working on element el; i, m, n are its
\* locals (rule index, captured current_method, lines_before); promoted and ctx
\* say which finally blocks of _process_element it is inside of
Frame(fn, pc, el, b, c) ==
    [ fn |-> fn, pc |-> pc, el |-> el, i |-> 1, m |-> None, n |-> 0,
      promoted |-> FALSE, ctx |-> FALSE, snap |-> Snap(b, c) ]

ChainFrame(el, b, c) == Frame("chain", "enter", el, b, c)

Top == Last(stack)
SetTop(fr) == Append(Front(stack), fr)
Call(fr, callee) == Append(SetTop(fr), callee)
Return == Front(stack)

Running == phase = "running" /\ exc = NoExc /\ stack # <<>>
At(fn, pc) == Running /\ Top.fn = fn /\ Top.pc = pc

Ev(ev, a, b, c) == [ev |-> ev, a |-> a, b |-> b, c |-> c, s |-> ""]
\* an edge from element src to target, of connector kind label, and what was done with it
Edge(src, target, label, out) == [ev |-> "edge", a |-> target, b |-> label, c |-> out, s |-> src]

\* BaseElementProcessor.get_element_name on the start element
get_element_name(st) == IF st.named THEN "start" ELSE "unnamed"

\* BaseElementProcessor._add_element_header
add_element_header(b, name) ==
    IF ~b.method_mode_only \/ b.current_method # None
    THEN add_comment(add_blank(b), name) ELSE b

\* the end of transpile_flow: render and return the document
Finish(b) ==
    /\ lb' = get_formatted_lines(b)
    /\ doc' = get_formatted_lines(b).lines
    /\ phase' = "done"

-----------------------------------------------------------------------------
(* transpile_flow up to the first recursive call: goto pre-scan, flow header, *)
(* StartProcessor.process                                                     *)

\* _add_flow_header: three comment lines and a blank one
add_flow_header(b) ==
    add_blank(add_all(b, <<Line("comment", "Flow"), Line("comment", "Type"),
                           Line("comment", "Status")>>))

RECURSIVE declare_variables(_, _)
declare_variables(b, names) ==
    IF names = {} THEN b
    ELSE LET x == CHOOSE y \in names : TRUE
         IN declare_variables(add(b, Line("stmt", x)), names \ {x})

\* _process_variables: a declaration per flow variable, under a comment
process_variables(b, g) ==
    LET names == {x \in DOMAIN g.elems : g.elems[x].kind = "variables"}
    IN IF names = {} THEN b
       ELSE add_blank(declare_variables(add_comment(b, "Variable Declarations"), names))

Begin ==
    /\ phase = "init"
    /\ LET c1 == [cp EXCEPT !.goto_targets = @ \cup scan_for_goto_targets(graph)]
           b0 == process_variables(add_flow_header(lb), graph)
           b1 == add_element_header(b0, get_element_name(graph.start))
           b2 == add(b1, Line("call", "processFlow"))
           b3 == new_method(b2, "processFlow", Plain("void"))
           b4 == add_all(b3, <<Line("stmt", "record"), Line("stmt", "oldRecord"),
                               Line("blank", "")>>)
           b5 == IF graph.start.filters THEN begin_block(add(b4, Line("if", "start"))) ELSE b4
           go == renderer_outcome(graph.start.connector) = "chain"
           b6 == IF graph.start.filters
                 THEN add(end_block(add(b5, Line("comment", "Continue"))), Line("close", ""))
                 ELSE b5
       IN CASE graph.start.named ->
                 \* _build_element_map, line 261: the bucket of start is None,
                 \* storing a named start in it raises TypeError
                 /\ lb' = b0
                 /\ phase' = "failed"
                 /\ log' = Append(log, Ev("unwind", "start", "build_element_map", "TypeError"))
                 /\ UNCHANGED <<cp, stack, doc>>
            [] ~graph.start.named /\ go ->
                 /\ cp' = c1
                 /\ lb' = b5
                 /\ phase' = "running"
                 /\ stack' = << [Frame("start", "after_chain", "start", b2, c1)
                                    EXCEPT !.promoted = TRUE],
                                ChainFrame(graph.start.connector.target, b5, c1) >>
                 /\ log' = Append(Append(log, Ev("fire", "start", "start", "")),
                                  Edge("start", graph.start.connector.target, "start", "chain"))
                 /\ doc' = doc
            [] OTHER ->
                 /\ cp' = c1
                 /\ Finish(end_method(b6))
                 /\ stack' = stack
                 /\ log' = Append(log, Ev("fire", "start", "start", ""))
    /\ UNCHANGED <<collection, derived, graph, exc, vt>>

\* StartProcessor._process_impl after process_chain returned
StartEnd ==
    /\ At("start", "after_chain")
    /\ LET b1 == IF graph.start.filters THEN add(end_block(lb), Line("close", "")) ELSE lb
       IN Finish(end_method(b1))
    /\ stack' = Return
    /\ UNCHANGED <<collection, derived, graph, exc, cp, vt, log>>

-----------------------------------------------------------------------------
(* ElementChainProcessor.process_chain *)

\* lines 189-198: cycle check, then mark processed and extend the path
ChainEnter ==
    /\ At("chain", "enter")
    /\ IF check_for_cycles(cp, Top.el)
       THEN /\ cp' = [cp EXCEPT !.processed_elements = @ \cup {Top.el},
                                !.current_path = Append(@, Top.el)]
            /\ stack' = SetTop([Top EXCEPT !.pc = "element"])
            /\ log' = log
       ELSE /\ cp' = cp
            /\ stack' = Return
            /\ log' = Append(log, Ev("stop", Top.el, "", ""))
    /\ UNCHANGED <<collection, derived, graph, phase, exc, lb, vt, doc>>

\* _process_element up to the end of the renderer's straight-line part
ChainElement ==
    /\ At("chain", "element")
    /\ LET el == Top.el
           e == graph.elems[el]
           hasproc == e.kind \in Registered
           promote == hasproc /\ should_create_method(cp, el)
           returns == analyze_function_returns(e)
           rtype == IF Len(returns) = 1 /\ get_type(vt, returns[1]) # NoType
                    THEN get_type(vt, returns[1]) ELSE Plain("void")
           c1 == IF promote THEN [cp EXCEPT !.goto_methods = @ \cup {el}] ELSE cp
           b0 == IF promote THEN new_method(lb, el, rtype) ELSE lb
           b1 == IF promote /\ Len(returns) >= 2 THEN add_comment(b0, "Returns") ELSE b0
           inloop == hasproc /\ e.kind = "loop"
           c2 == IF inloop
                 THEN push_loop_context(c1, el, chain_loop_var(Chars(e.collectionReference.text)),
                                        e.collectionReference.text)
                 ELSE c1
           b2 == IF hasproc THEN add_element_header(b1, el) ELSE b1
           fr == [Top EXCEPT !.pc = IF hasproc THEN "after_proc" ELSE "conn",
                             !.promoted = promote, !.ctx = inloop]
           lg == IF ~hasproc THEN Append(log, Ev("noproc", el, e.kind, ""))
                 ELSE IF promote
                      THEN Append(Append(log, Ev("promote", el, "engine", "")), Ev("fire", el, e.kind, ""))
                      ELSE Append(log, Ev("fire", el, e.kind, ""))
       IN /\ cp' = c2
          /\ log' = lg
          /\ CASE ~hasproc ->
                    /\ lb' = b2 /\ stack' = SetTop(fr) /\ exc' = exc /\ vt' = vt
               [] e.kind = "recordLookups" /\ ~e.object ->
                    /\ lb' = b2 /\ stack' = SetTop(fr) /\ vt' = vt
                    /\ exc' = "ElementProcessingError"
               [] e.kind = "recordLookups" /\ e.object ->
                    /\ lb' = add(end_block(add(begin_block(add(b2, Line("qopen", el))),
                                               Line("qbody", el))), Line("qclose", el))
                    /\ vt' = add_variable(vt, IF e.outputReference.has /\ e.outputReference.text # ""
                                              THEN e.outputReference.text ELSE el, ListOf("Obj"))
                    /\ stack' = SetTop(fr) /\ exc' = exc
               [] e.kind = "decisions" ->
                    /\ lb' = add(b2, Line("section", el))
                    /\ stack' = Call(fr, Frame("decision", "rules", el, b2, c2))
                    /\ exc' = exc /\ vt' = vt
               [] e.kind = "loops" ->
                    /\ lb' = b2
                    /\ stack' = Call(fr, Frame("loop", "start", el, b2, c2))
                    /\ exc' = exc /\ vt' = vt
               [] e.kind = "assignments" ->
                    /\ lb' = b2
                    /\ stack' = Call(fr, Frame("assign", "start", el, b2, c2))
                    /\ exc' = exc /\ vt' = vt
               [] e.kind = "actionCalls" ->
                    \* action_processor.py:39-49: without input parameters the
                    \* statement is "name();", the text of a bare call
                    /\ lb' = add(add(b2, Line("section", el)), Line("call", el))
                    /\ stack' = SetTop(fr) /\ exc' = exc /\ vt' = vt
               [] OTHER ->
                    /\ lb' = add(add(b2, Line("section", el)), Line("stmt", el))
                    /\ stack' = SetTop(fr) /\ exc' = exc /\ vt' = vt
    /\ UNCHANGED <<collection, derived, graph, phase, doc>>

\* _process_element after processor.process returned: return statement and the
\* finally blocks (lines 283-297, 306-307)
ChainAfterProcess ==
    /\ At("chain", "after_proc")
    /\ LET returns == analyze_function_returns(graph.elems[Top.el])
           b1 == CASE Top.promoted /\ Len(returns) = 1 -> add(lb, Line("return", returns[1]))
                  [] Top.promoted /\ Len(returns) >= 2 -> add_comment(lb, "TODO: Return")
                  [] OTHER -> lb
       IN /\ lb' = IF Top.promoted THEN end_method(b1) ELSE lb
          /\ cp' = IF Top.ctx THEN pop_loop_context(cp) ELSE cp
    /\ stack' = SetTop([Top EXCEPT !.pc = "conn"])
    /\ UNCHANGED <<collection, derived, graph, phase, exc, vt, log, doc>>


\* _process_connector, lines 318-323: an element with a fault connector opens a try
ConnStart ==
    /\ At("chain", "conn")
    /\ lb' = IF graph.elems[Top.el].faultConnector.has
             THEN begin_block(add(lb, Line("try", Top.el))) ELSE lb
    /\ stack' = SetTop([Top EXCEPT !.pc = "c_normal"])
    /\ UNCHANGED <<collection, derived, graph, phase, exc, cp, vt, log, doc>>

\* one connector of _process_connector: a bare call, a recursive process_chain,
\* or nothing; next is the position of the frame afterwards
FollowConnector(conn, label, next) ==
    LET out == connector_outcome(cp, conn)
    IN /\ lb' = IF out = "call" THEN add(lb, Line("call", conn.target)) ELSE lb
       /\ stack' = IF out = "chain"
                   THEN Call([Top EXCEPT !.pc = next], ChainFrame(conn.target, lb, cp))
                   ELSE SetTop([Top EXCEPT !.pc = next])
       /\ log' = IF out = "none" THEN log ELSE Append(log, Edge(Top.el, conn.target, label, out))

\* lines 326-356, first pass of the loop: `connector`
ConnNormal ==
    /\ At("chain", "c_normal")
    /\ FollowConnector(graph.elems[Top.el].connector, "connector", "c_default")
    /\ UNCHANGED <<collection, derived, graph, phase, exc, cp, vt, doc>>

\* lines 326-356, second pass of the loop: `defaultConnector`
ConnDefault ==
    /\ At("chain", "c_default")
    /\ FollowConnector(graph.elems[Top.el].defaultConnector, "defaultConnector", "c_fault")
    /\ UNCHANGED <<collection, derived, graph, phase, exc, cp, vt, doc>>

\* process_chain's finally on a normal return
LeaveChain ==
    /\ cp' = IF cp.current_path # <<>> THEN [cp EXCEPT !.current_path = Front(@)] ELSE cp
    /\ stack' = Return

\* an element without fault connector is finished after its connectors
ConnDone ==
    /\ At("chain", "c_fault")
    /\ ~graph.elems[Top.el].faultConnector.has
    /\ LeaveChain
    /\ UNCHANGED <<collection, derived, graph, phase, exc, lb, vt, log, doc>>

\* lines 359-383: the catch block and the fault target
ConnFault ==
    /\ At("chain", "c_fault")
    /\ graph.elems[Top.el].faultConnector.has
    /\ LET fc == graph.elems[Top.el].faultConnector
           out == connector_outcome(cp, fc)
           b1 == begin_block(add(end_block(lb), Line("catch", Top.el)))
       IN /\ lb' = IF out = "call" THEN add(b1, Line("call", fc.target)) ELSE b1
          /\ stack' = IF out = "chain"
                      THEN Call([Top EXCEPT !.pc = "c_end"], ChainFrame(fc.target, b1, cp))
                      ELSE SetTop([Top EXCEPT !.pc = "c_end"])
          /\ log' = IF out = "none" THEN log
                    ELSE Append(log, Edge(Top.el, fc.target, "faultConnector", out))
    /\ UNCHANGED <<collection, derived, graph, phase, exc, cp, vt, doc>>

\* lines 385-386, then process_chain's finally
ConnEnd ==
    /\ At("chain", "c_end")
    /\ lb' = add(end_block(lb), Line("close", Top.el))
    /\ LeaveChain
    /\ UNCHANGED <<collection, derived, graph, phase, exc, vt, log, doc>>

-----------------------------------------------------------------------------
(* DecisionProcessor *)

\* _process_impl's loop over the rules with _process_rule up to its recursion
DecisionRule ==
    /\ At("decision", "rules")
    /\ Top.i <= Len(graph.elems[Top.el].rules)
    /\ LET rule == graph.elems[Top.el].rules[Top.i]
           is_first == Top.i = 1
           b1 == begin_block(add(lb, Line(IF is_first THEN "if" ELSE "elseif", Top.el)))
           go == renderer_outcome(rule.connector) = "chain"
       IN IF ~rule.cond
          THEN /\ stack' = SetTop([Top EXCEPT !.i = @ + 1])
               /\ UNCHANGED <<lb, log>>
          ELSE /\ lb' = b1
               /\ stack' = IF go
                           THEN Call([Top EXCEPT !.pc = "rule_end"],
                                     ChainFrame(rule.connector.target, b1, cp))
                           ELSE SetTop([Top EXCEPT !.pc = "rule_end"])
               /\ log' = IF go THEN Append(log, Edge(Top.el, rule.connector.target, "rule", "chain"))
                         ELSE log
    /\ UNCHANGED <<collection, derived, graph, phase, exc, cp, vt, doc>>

\* _process_rule line 82, then the next rule
DecisionRuleEnd ==
    /\ At("decision", "rule_end")
    /\ lb' = end_block(lb)
    /\ stack' = SetTop([Top EXCEPT !.pc = "rules", !.i = @ + 1])
    /\ UNCHANGED <<collection, derived, graph, phase, exc, cp, vt, log, doc>>

\* _process_default_connector up to its recursion (lines 90-108), or its
\* bare closing brace when there is nothing to recurse into
DecisionDefault ==
    /\ At("decision", "rules")
    /\ Top.i > Len(graph.elems[Top.el].rules)
    /\ LET dc == graph.elems[Top.el].defaultConnector
           go == renderer_outcome(dc) = "chain"
       IN IF go
          THEN /\ stack' = Call([Top EXCEPT !.pc = "default_after", !.m = lb.current_method,
                                            !.n = buffer_len(lb, lb.current_method)],
                                ChainFrame(dc.target, lb, cp))
               /\ log' = Append(log, Edge(Top.el, dc.target, "decisionDefault", "chain"))
               /\ lb' = lb
          ELSE /\ lb' = add(lb, Line("close", Top.el))
               /\ stack' = Return
               /\ log' = log
    /\ UNCHANGED <<collection, derived, graph, phase, exc, cp, vt, doc>>

\* the splice of "} else {" in front of what the default target wrote
insert_else(b, m, pos0, el) ==
    IF m # None
    THEN [b EXCEPT !.methods[m] = InsertAt(@, pos0, Line("else", el)),
                   !.method_indentation_levels[m] = InsertAt(@, pos0, b.level)]
    ELSE [b EXCEPT !.lines = InsertAt(@, pos0, Line("else", el)),
                   !.indentation_levels = InsertAt(@, pos0, b.level)]

\* a variant that splices the else block in whether or not the default target
\* wrote anything
content_added_always(lines_before, lines_after) == lines_after >= lines_before

\* line 113: the default target wrote into the buffer the decision writes to
content_added(lines_before, lines_after) == lines_after > lines_before

\* lines 110-131
DecisionDefaultAfter ==
    /\ At("decision", "default_after")
    /\ LET lines_after == buffer_len(lb, Top.m)
       IN lb' = IF content_added(Top.n, lines_after)
                THEN add(insert_else(lb, Top.m, Top.n, Top.el), Line("close", Top.el))
                ELSE add(lb, Line("close", Top.el))
    /\ stack' = Return
    /\ UNCHANGED <<collection, derived, graph, phase, exc, cp, vt, log, doc>>

-----------------------------------------------------------------------------
(* LoopProcessor *)

\* _process_impl lines 43-60 and _process_next_value up to its recursion
LoopStart ==
    /\ At("loop", "start")
    /\ LET el == Top.el
           e == graph.elems[el]
           coll == e.collectionReference
           det == determine_collection_type(vt, graph, coll.text)
           loop_var == generate_loop_variable_name(Chars(coll.text))
           b1 == add_comment(begin_block(add(add(lb, Line("section", el)), Line("for", el))),
                             "Start of loop block")
           go == renderer_outcome(e.nextValueConnector) = "chain"
           c1 == push_loop_context(cp, el, loop_var, coll.text)
       IN CASE ~coll.has ->
                 /\ lb' = add_comment(lb, "ERROR: No collection reference")
                 /\ stack' = Return
                 /\ UNCHANGED <<exc, cp, vt, log>>
            [] coll.has /\ coll.text = "" ->
                 /\ stack' = Return
                 /\ UNCHANGED <<exc, cp, vt, log, lb>>
            [] coll.has /\ coll.text # "" /\ loop_var = IndexError ->
                 /\ exc' = IndexError
                 /\ vt' = det.vt
                 /\ UNCHANGED <<stack, cp, log, lb>>
            [] OTHER ->
                 /\ vt' = add_loop_mapping(det.vt, el, loop_var)
                 /\ exc' = exc
                 /\ IF go
                    THEN /\ lb' = b1
                         /\ cp' = c1
                         /\ stack' = Call([Top EXCEPT !.pc = "body"],
                                          ChainFrame(e.nextValueConnector.target, b1, c1))
                         /\ log' = Append(log, Edge(Top.el, e.nextValueConnector.target,
                                                  "nextValue", "chain"))
                    ELSE /\ lb' = add_comment(b1, "Process SObject record")
                         /\ cp' = cp
                         /\ stack' = SetTop([Top EXCEPT !.pc = "body_done"])
                         /\ log' = log
    /\ UNCHANGED <<collection, derived, graph, phase, doc>>

\* the finally of _process_next_value, _process_impl lines 61-62 and
\* _process_no_more_values up to its recursion
LoopBodyEnd ==
    /\ Running /\ Top.fn = "loop" /\ Top.pc \in {"body", "body_done"}
    /\ LET e == graph.elems[Top.el]
           b1 == add(end_block(lb), Line("close", Top.el))
           c1 == IF Top.pc = "body" THEN pop_loop_context(cp) ELSE cp
           go == renderer_outcome(e.noMoreValuesConnector) = "chain"
       IN /\ cp' = c1
          /\ IF go
             THEN /\ lb' = b1
                  /\ stack' = Call([Top EXCEPT !.pc = "after"],
                                   ChainFrame(e.noMoreValuesConnector.target, b1, c1))
                  /\ log' = Append(log, Edge(Top.el, e.noMoreValuesConnector.target,
                                           "noMoreValues", "chain"))
             ELSE /\ lb' = add_comment(b1, "Process SObject record")
                  /\ stack' = Return
                  /\ log' = log
    /\ UNCHANGED <<collection, derived, graph, phase, exc, vt, doc>>

\* _process_no_more_values returned
LoopAfter ==
    /\ At("loop", "after")
    /\ stack' = Return
    /\ UNCHANGED <<collection, derived, graph, phase, exc, lb, cp, vt, log, doc>>

-----------------------------------------------------------------------------
(* AssignmentProcessor (record_processor.py, the one the service registers) *)

\* _process_assignment_items, then _process_connector and
\* _create_and_process_method up to its recursion
AssignStart ==
    /\ At("assign", "start")
    /\ LET conn == graph.elems[Top.el].connector
           go == renderer_outcome(conn) = "chain"
           b1 == add(lb, Line("stmt", Top.el))
           b2 == new_method(b1, conn.target, Plain("void"))
       IN IF go
          THEN /\ lb' = b2
               /\ stack' = Call([Top EXCEPT !.pc = "ret", !.promoted = TRUE],
                                ChainFrame(conn.target, b2, cp))
               /\ log' = Append(Append(log, Ev("promote", conn.target, "assignment", "")),
                                Edge(Top.el, conn.target, "assignment", "chain"))
          ELSE /\ lb' = b1
               /\ stack' = Return
               /\ log' = log
    /\ UNCHANGED <<collection, derived, graph, phase, exc, cp, vt, doc>>

\* _create_and_process_method lines 109-110
AssignRet ==
    /\ At("assign", "ret")
    /\ lb' = add(end_method(lb), Line("call", graph.elems[Top.el].connector.target))
    /\ stack' = Return
    /\ UNCHANGED <<collection, derived, graph, phase, exc, cp, vt, log, doc>>

-----------------------------------------------------------------------------
(* Exceptions *)

\* the finally blocks a frame runs when an exception passes through it
unwind_lb(f, b) ==
    IF f.fn = "chain" /\ f.pc = "after_proc" /\ f.promoted THEN end_method(b) ELSE b

\* a variant in which a raise out of a loop body skips the pop
unwind_cp_no_finally(f, c) ==
    IF f.fn = "chain" /\ c.current_path # <<>>
    THEN [c EXCEPT !.current_path = Front(@)] ELSE c

unwind_cp(f, c) ==
    LET c1 == IF (f.fn = "chain" /\ f.pc = "after_proc" /\ f.ctx) \/ (f.fn = "loop" /\ f.pc = "body")
              THEN pop_loop_context(c) ELSE c
    IN IF f.fn = "chain" /\ c1.current_path # <<>>
       THEN [c1 EXCEPT !.current_path = Front(@)] ELSE c1

\* the exception leaves the innermost frame; out of the last one it reaches
\* main(), which reports it and exits
Unwind ==
    /\ phase = "running" /\ exc # NoExc /\ stack # <<>>
    /\ lb' = unwind_lb(Top, lb)
    /\ cp' = unwind_cp(Top, cp)
    /\ stack' = Return
    /\ phase' = IF Len(stack) = 1 THEN "failed" ELSE phase
    /\ log' = Append(log, Ev("unwind", Top.el, Top.fn, exc))
    /\ UNCHANGED <<collection, derived, graph, exc, vt, doc>>

-----------------------------------------------------------------------------
(* The flows the model is run on *)

MaxRules == 2

Act(c, d, f) ==
    [Elem("actionCalls") EXCEPT !.connector = c, !.defaultConnector = d, !.faultConnector = f]
Asg(c, f) == [Elem("assignments") EXCEPT !.connector = c, !.faultConnector = f]
Lkp(obj, c) == [Elem("recordLookups") EXCEPT !.object = obj, !.connector = c]
Dec(rules, d) == [Elem("decisions") EXCEPT !.rules = rules, !.defaultConnector = d]
Loop(coll, nv, nm) ==
    [Elem("loops") EXCEPT !.collectionReference = coll, !.nextValueConnector = nv,
                          !.noMoreValuesConnector = nm]
\* a flow variable: in the element map, without a processor
Var(c) == [Elem("variables") EXCEPT !.connector = c]

Simple(kind, c) == IF kind = "assignments" THEN Asg(c, NoConn) ELSE Act(c, NoConn, NoConn)

\* start.named: the start element has a name child; nameless: the kinds of
\* the elements of the file without a name child, which _build_element_map
\* leaves out of the element map elems
Flow(fl, sc, elems) ==
    [start |-> [filters |-> fl, connector |-> sc, named |-> FALSE], elems |-> elems,
     nameless |-> {}]

\* start -> decision A; rule 1 -> B, rule 2 -> C or D, further rules -> D;
\* B and C continue to D, possibly through goto connectors; V is a flow
\* variable, an element without a processor
RuleTarget(i, t2) == IF i = 1 THEN "B" ELSE IF i = 2 THEN t2 ELSE "D"

DiamondFlows ==
    { Flow(FALSE, Conn("A", FALSE),
           ("A" :> Dec([i \in 1..MaxRules |-> Rule(conds[i], Conn(RuleTarget(i, t2), FALSE))], d))
        @@ ("B" :> Simple(kB, Conn("D", gB)))
        @@ ("C" :> Simple(kC, Conn("D", gC)))
        @@ ("D" :> IF dOk THEN Act(NoConn, NoConn, NoConn) ELSE Lkp(FALSE, NoConn))
        @@ ("V" :> Var(NoConn))) :
        conds \in [1..MaxRules -> BOOLEAN], t2 \in {"C"},
        d \in {NoConn, NoRefConn, Conn("Z", FALSE), Conn("B", FALSE), Conn("D", FALSE),
               Conn("D", TRUE), Conn("V", FALSE)},
        kB \in {"actionCalls", "assignments"}, gB \in BOOLEAN,
        kC \in {"actionCalls", "assignments"}, gC \in BOOLEAN, dOk \in BOOLEAN }
    \cup
    { Flow(FALSE, Conn("A", FALSE),
           ("A" :> Dec([i \in 1..MaxRules |-> Rule(conds[i], Conn(RuleTarget(i, "D"), FALSE))], d))
        @@ ("B" :> Simple(kB, Conn("D", gB)))
        @@ ("C" :> Act(Conn("D", TRUE), NoConn, NoConn))
        @@ ("D" :> Act(NoConn, NoConn, NoConn))) :
        conds \in [1..MaxRules -> BOOLEAN],
        d \in {NoConn, Conn("C", FALSE), Conn("D", FALSE)},
        kB \in {"actionCalls", "assignments"}, gB \in BOOLEAN }

\* start -> A with a normal connector to B and a fault connector to C
FaultFlows ==
    { Flow(FALSE, Conn("A", FALSE),
           ("A" :> IF kA = "assignments" THEN Asg(Conn("B", gA), Conn("C", gF))
                   ELSE Act(Conn("B", gA), NoConn, Conn("C", gF)))
        @@ ("B" :> CASE kB = "decisions" ->
                          Dec(<<Rule(TRUE, Conn("D", FALSE))>>, Conn("C", FALSE))
                     [] kB = "recordLookups" -> Lkp(bOk, Conn("D", FALSE))
                     [] OTHER -> Act(Conn("D", FALSE), NoConn, NoConn))
        @@ ("C" :> Act(cc, NoConn, NoConn))
        @@ ("D" :> Act(NoConn, NoConn, NoConn))) :
        kA \in {"actionCalls", "assignments"}, gA \in BOOLEAN, gF \in BOOLEAN,
        kB \in {"actionCalls", "decisions", "recordLookups"}, bOk \in BOOLEAN,
        cc \in {NoConn, Conn("B", TRUE), Conn("D", TRUE)} }

\* start -> loop A over a collection; body B, after-loop C; B, or D inside a
\* nested loop B, may be a record lookup whose renderer raises
LoopFlows ==
    { Flow(FALSE, Conn("A", FALSE),
           ("A" :> Loop(coll, nv, nm))
        @@ ("B" :> IF bOk THEN Act(NoConn, NoConn, NoConn) ELSE Lkp(FALSE, NoConn))
        @@ ("C" :> Lkp(TRUE, NoConn))) :
        bOk \in BOOLEAN,
        coll \in {NoText, Text(""), Text("Linked_Leads"), Text("Accounts"), Text("__"),
                  Text("_Q"), Text("C")},
        nv \in {NoConn, Conn("B", FALSE), Conn("Z", FALSE)},
        nm \in {NoConn, Conn("C", FALSE), Conn("B", FALSE)} }
    \cup
    { Flow(FALSE, Conn("A", FALSE),
           ("A" :> Loop(Text("Linked_Leads"), Conn("B", FALSE), nm))
        @@ ("B" :> CASE kB = "loops" -> Loop(Text("Accounts"), Conn("D", FALSE), bc)
                     [] OTHER -> Simple(kB, bc))
        @@ ("C" :> Act(NoConn, NoConn, NoConn))
        @@ ("D" :> IF dOk THEN Act(Conn("B", FALSE), NoConn, NoConn) ELSE Lkp(FALSE, NoConn))) :
        dOk \in BOOLEAN,
        nm \in {NoConn, Conn("C", FALSE), Conn("B", FALSE)},
        kB \in {"actionCalls", "assignments", "loops"},
        bc \in {NoConn, Conn("A", FALSE), Conn("C", FALSE), Conn("C", TRUE)} }

\* start variants; an element with both a connector and a defaultConnector;
\* a target without a processor
MixedFlows ==
    { Flow(fl, sc, ("A" :> Act(NoConn, NoConn, NoConn))) :
        fl \in BOOLEAN, sc \in {NoConn, NoRefConn, Conn("Z", FALSE), Conn("A", TRUE)} }
    \cup
    { Flow(fl, Conn("A", FALSE),
           ("A" :> Act(Conn("B", g1), Conn("C", g2), f))
        @@ ("B" :> IF bVar THEN Var(bc) ELSE Act(bc, NoConn, NoConn))
        @@ ("C" :> Act(NoConn, NoConn, NoConn))) :
        fl \in BOOLEAN, g1 \in BOOLEAN, g2 \in BOOLEAN, f \in {NoConn, Conn("C", FALSE)},
        bVar \in BOOLEAN, bc \in {NoConn, Conn("C", FALSE)} }

\* start -> A -> B, a record lookup that may name an output variable, may
\* assign fields of its result to further variables and may be a goto target
LookupFlows ==
    { Flow(FALSE, Conn("A", FALSE),
           ("A" :> Act(Conn("B", g), Conn("B", FALSE), NoConn))
        @@ ("B" :> [Lkp(TRUE, NoConn) EXCEPT !.outputReference = out,
                                             !.outputAssignments = oa])) :
        g \in BOOLEAN, out \in {NoText, Text("B"), Text("out")},
        oa \in {<<>>, <<"x">>, <<"x", "y">>} }

\* start with or without a name -> decision A with one rule -> B; the file
\* may hold a decision without a name
NamelessFlows ==
    { [Flow(FALSE, Conn("A", FALSE),
            ("A" :> Dec(<<Rule(TRUE, Conn("B", FALSE))>>, d))
         @@ ("B" :> Act(NoConn, NoConn, NoConn)))
         EXCEPT !.start.named = sn, !.nameless = nl] :
        sn \in BOOLEAN, nl \in {{}, {"decisions"}}, d \in {NoConn, Conn("B", FALSE)} }

\* a loop A over the output of a record lookup B, B rendered before the loop
\* (start -> B -> A) or after it (start -> A, then B after the loop)
TypedLoopFlows ==
    { Flow(FALSE, Conn(first, FALSE),
           ("A" :> Loop(coll, NoConn, Conn("B", FALSE)))
        @@ ("B" :> [Lkp(TRUE, Conn("A", FALSE)) EXCEPT !.outputReference = out])) :
        first \in {"A", "B"}, coll \in {Text("B"), Text("out")},
        out \in {NoText, Text("B"), Text("out")} }

Flows ==
    DiamondFlows \cup FaultFlows \cup LoopFlows \cup MixedFlows \cup LookupFlows
       \cup NamelessFlows \cup TypedLoopFlows

-----------------------------------------------------------------------------
(* The machine *)

NotDerived == [loop |-> None, assignment |-> None]

Init ==
    /\ graph \in Flows
    /\ phase = "init"
    /\ stack = <<>>
    /\ exc = NoExc
    /\ lb = LB_init
    /\ cp = CP_init
    /\ vt = VT_init
    /\ log = <<>>
    /\ doc = <<>>
    /\ collection = <<>>
    /\ derived = NotDerived

Next ==
    \/ Begin
    \/ StartEnd
    \/ ChainEnter
    \/ ChainElement
    \/ ChainAfterProcess
    \/ ConnStart
    \/ ConnNormal
    \/ ConnDefault
    \/ ConnDone
    \/ ConnFault
    \/ ConnEnd
    \/ DecisionRule
    \/ DecisionRuleEnd
    \/ DecisionDefault
    \/ DecisionDefaultAfter
    \/ LoopStart
    \/ LoopBodyEnd
    \/ LoopAfter
    \/ AssignStart
    \/ AssignRet
    \/ Unwind

Spec == Init /\ [][Next]_vars

\* the flows of the second and later runs on one service
LaterFlows == LookupFlows

\* transpile_flow called again on the same service: _reset_state.  The chain
\* processor and the line builder are reset in place.  The service makes a new
\* variable tracker and new renderers, but the chain processor keeps the
\* renderers and the tracker it was given at construction, so the tracker the
\* traversal reads and writes stays as the last run left it.
Reset ==
    /\ phase \in {"done", "failed"}
    /\ graph' \in LaterFlows
    /\ phase' = "init"
    /\ stack' = <<>>
    /\ exc' = NoExc
    /\ lb' = LB_init
    /\ cp' = CP_init
    /\ vt' = vt
    /\ log' = <<>>
    /\ doc' = <<>>
    /\ UNCHANGED <<collection, derived>>

NextReuse == Next \/ Reset

\* any number of transpilations, one after the other, on one service
SpecReuse == Init /\ [][NextReuse]_vars

\* LineBuilder.add never ends in RuntimeError during a traversal, so no step
\* of the machine is cut short by it
AddNeverRaises == ~lb.raised

-----------------------------------------------------------------------------
(* Reading the event log and the output *)

Events(ev) == {i \in 1..Len(log) : log[i].ev = ev}
FireCount(x) == Cardinality({i \in Events("fire") : log[i].a = x})
Names == DOMAIN graph.elems
Decisions == {x \in Names : graph.elems[x].kind = "decisions"}
HasLoops == \E x \in Names : graph.elems[x].kind = "loops"
Usable(c) == c.has /\ c.ref /\ c.target \in Names

\* the elements an element points at through its normal, default and fault
\* connectors, the connectors of a decision's rules included
Successors(x) ==
    LET e == graph.elems[x]
    IN {c.target : c \in {d \in {e.connector, e.defaultConnector, e.faultConnector}
                                \cup {e.rules[i].connector : i \in DOMAIN e.rules} : Usable(d)}}

RECURSIVE Closure(_, _)
Closure(S, n) ==
    IF n = 0 THEN S ELSE Closure(S \cup UNION {Successors(x) : x \in S}, n - 1)

Reachable ==
    IF Usable(graph.start.connector)
    THEN Closure({graph.start.connector.target}, Cardinality(Names)) ELSE {}

\* the buffers of the line builder: the main one (None) and one per procedure
BufferNames == {None} \cup DOMAIN lb.methods
Buffer(m) == IF m = None THEN lb.lines ELSE lb.methods[m]
Levels(m) == IF m = None THEN lb.indentation_levels ELSE lb.method_indentation_levels[m]
\* where a line of kind k about n stands: <<buffer, index>> pairs
Where(k, n) ==
    {p \in UNION {{<<m, i>> : i \in 1..Len(Buffer(m))} : m \in BufferNames} :
        Buffer(p[1])[p[2]] = Line(k, n)}

\* the edge events out of element x through connector kind label
EdgesOf(x, label) == {i \in Events("edge") : log[i].s = x /\ log[i].b = label}
\* the edge of event i made the traversal render its target: the next event
\* is the target's promotion or its renderer firing
Rendered(i) ==
    i < Len(log) /\ log[i + 1].ev \in {"promote", "fire"} /\ log[i + 1].a = log[i].a
\* the edge of event i was dropped by the cycle check
Dropped(i) == i < Len(log) /\ log[i + 1].ev = "stop" /\ log[i + 1].a = log[i].a

-----------------------------------------------------------------------------
(* C1 *)

\* C1: a renderer fires at most once per element in a run, and in a flow
\* without loops every element reachable from start through normal, default
\* and fault connectors (and that has a renderer) has its renderer fire
\* exactly once by the time the document is returned.
C1_ExactlyOnce ==
    /\ \A x \in Names : FireCount(x) <= 1
    /\ (phase = "done" /\ ~HasLoops) =>
          \A x \in Reachable : graph.elems[x].kind \in Registered => FireCount(x) = 1

\* the half of C1 that holds
AtMostOnce == \A x \in Names : FireCount(x) <= 1

-----------------------------------------------------------------------------
(* C2 *)

BraceOpens(d) == Cardinality({i \in 1..Len(d) : Opens(d[i]) = 1})
BraceCloses(d) == Cardinality({i \in 1..Len(d) : Closes(d[i]) = 1})

\* C2: whenever the transpile completes without raising, the returned document
\* has as many "{" as "}" on its structural lines, also for a decision none of
\* whose rules has a condition.
C2_BraceBalanced == phase = "done" => BraceOpens(doc) = BraceCloses(doc)

-----------------------------------------------------------------------------
(* C3 *)

\* C3: when a routine that opened a procedure (the engine's promotion, the
\* start routine, the assignment renderer) is left, by return or by a raise
\* passing through it, the open procedure, the procedure stack and the depth
\* are what they were when the routine was entered.
C3_ProcedureClosed ==
    [][ (stack # <<>> /\ Top.promoted /\ Len(stack') < Len(stack)) =>
            /\ lb'.current_method = Top.snap.cm
            /\ lb'.method_stack = Top.snap.ms
            /\ lb'.level = Top.snap.lvl ]_vars

-----------------------------------------------------------------------------
(* C4 *)

\* the decision x has written its closing brace
Closed(x) == Where("close", x) # {}

\* the default connector of decision x leads nowhere or to no output
NoDefaultOutput(x) ==
    \/ renderer_outcome(graph.elems[x].defaultConnector) # "chain"
    \/ \E i \in EdgesOf(x, "decisionDefault") :
          \/ Dropped(i)
          \/ /\ graph.elems[log[i].a].kind \notin Registered
             /\ Successors(log[i].a) = {}

\* C4: a decision whose default connector is absent, has no target reference,
\* names a missing target or a target that writes nothing (an element already
\* processed, or one without a processor that leads nowhere) closes with one
\* bare "}" and no "} else {"; and no "} else {" is ever directly followed by
\* the closing brace.
C4_NoEmptyElse ==
    /\ \A x \in Decisions : (Closed(x) /\ NoDefaultOutput(x)) =>
          /\ Where("else", x) = {}
          /\ Cardinality(Where("close", x)) = 1
    /\ \A x \in Decisions : \A p \in Where("else", x) :
          /\ p[2] < Len(Buffer(p[1]))
          /\ Buffer(p[1])[p[2] + 1].k # "close"

\* a finished run in which a decision with an if-branch had its default edge
\* dropped because the target was already processed
C4_Witness ==
    /\ phase = "done"
    /\ \E x \in Decisions :
          /\ \E i \in EdgesOf(x, "decisionDefault") : Dropped(i)
          /\ Where("if", x) # {}
          /\ Closed(x)

-----------------------------------------------------------------------------
(* C5 *)

\* the lines strictly between positions i and j of buffer m
Between(m, i, j) == {Buffer(m)[q] : q \in (i + 1)..(j - 1)}

\* the code of element t, or a call of the procedure it was promoted to
CodeOrCall(t) == {Line("comment", t), Line("call", t)}

\* C5: when the traversal renders the default target of a decision from the
\* decision's default edge, the output holds exactly one "} else {" of that
\* decision, with the target's code (or the call of its procedure) after it
\* and the decision's closing "}" after that; also when the target is a goto
\* target promoted to its own procedure at that moment.
C5_OneElse ==
    phase = "done" =>
       \A x \in Decisions : \A e \in EdgesOf(x, "decisionDefault") :
          Rendered(e) =>
             /\ Cardinality(Where("else", x)) = 1
             /\ \E p \in Where("else", x) : \E c \in Where("close", x) :
                   /\ p[1] = c[1] /\ p[2] < c[2]
                   /\ Between(p[1], p[2], c[2]) \cap CodeOrCall(log[e].a) # {}

-----------------------------------------------------------------------------
(* C6 *)

EnginePromotions(x) ==
    {i \in Events("promote") : log[i].a = x /\ log[i].b = "engine"}

\* C6: the engine promotes a name at most once in a run; the promoted set is
\* a subset of the goto target set; and it holds exactly the names promoted
\* so far, so none is ever removed.
C6_PromotedOnce ==
    /\ \A x \in Names : Cardinality(EnginePromotions(x)) <= 1
    /\ cp.goto_methods \subseteq cp.goto_targets
    /\ cp.goto_methods = {x \in Names : EnginePromotions(x) # {}}

\* a finished run in which a promoted name was the target of two edges
C6_Witness ==
    /\ phase = "done"
    /\ \E x \in cp.goto_methods :
          Cardinality({i \in Events("edge") : log[i].a = x}) >= 2

-----------------------------------------------------------------------------
(* C7 *)

\* C7: after the engine promoted a name, every later edge to it, of whatever
\* kind, is rendered as a bare call.
C7_CallAfterPromotion ==
    \A i \in Events("promote") : \A j \in Events("edge") :
       (log[i].b = "engine" /\ i < j /\ log[j].a = log[i].a) => log[j].c = "call"

-----------------------------------------------------------------------------
(* C8 *)

\* C8: an element with a normal and a fault connector writes, in one buffer
\* and in this order, "try {", the code of the normal target (or the call of
\* its procedure) when the normal edge renders it, "} catch", the same for
\* the fault target, and "}"; the "}" is written at the depth of the "try {".
C8_TryCatch ==
    phase = "done" =>
       \A x \in Names :
          (/\ Usable(graph.elems[x].connector) /\ Usable(graph.elems[x].faultConnector)
           /\ x \in cp.processed_elements) =>
             \E m \in BufferNames : \E i, j, k \in 1..Len(Buffer(m)) :
                /\ i < j /\ j < k
                /\ Buffer(m)[i] = Line("try", x)
                /\ Buffer(m)[j] = Line("catch", x)
                /\ Buffer(m)[k] = Line("close", x)
                /\ Levels(m)[i] = Levels(m)[k]
                /\ \A e \in EdgesOf(x, "connector") :
                      Rendered(e) => Between(m, i, j) \cap CodeOrCall(log[e].a) # {}
                /\ \A e \in EdgesOf(x, "faultConnector") :
                      Rendered(e) => Between(m, j, k) \cap CodeOrCall(log[e].a) # {}

-----------------------------------------------------------------------------
(* C9 *)

\* the elements a branch of decision x starts at, in rule order, default last
BranchTargets(x) ==
    {c.target : c \in {d \in {graph.elems[x].rules[i].connector : i \in DOMAIN graph.elems[x].rules}
                              \cup {graph.elems[x].defaultConnector} : Usable(d)}}

\* two branches of decision x meet at t: t is a successor of the heads of two
\* branches that were both rendered
Reconverge(x, t) ==
    \E a, b \in BranchTargets(x) :
       /\ a # b /\ FireCount(a) = 1 /\ FireCount(b) = 1
       /\ t \in Successors(a) /\ t \in Successors(b)

\* the lines "t();" in the output: the statement of an action named t reads so
OwnCalls(t) == IF graph.elems[t].kind = "actionCalls" THEN FireCount(t) ELSE 0

\* C9: when two branches of a decision that was rendered meet at an element
\* that is no goto target, the element's code is in the output once, in the
\* buffer of the decision, and the later edge adds nothing: no procedure of
\* that name and no call of it.
C9_SilentDrop ==
    (phase = "done" /\ ~HasLoops) =>
       \A x \in Decisions : \A t \in Names \ cp.goto_targets :
          (Reconverge(x, t) /\ FireCount(x) = 1 /\ FireCount(t) = 1) =>
             /\ Cardinality(Where("comment", t)) = 1
             /\ \E p \in Where("comment", t) : \E q \in Where("section", x) : p[1] = q[1]
             /\ t \notin DOMAIN lb.methods
             /\ Cardinality(Where("call", t)) = OwnCalls(t)

-----------------------------------------------------------------------------
(* The loop-variable derivations on their own: every collection name of up  *)
(* to MaxNameLen characters, and the two names the documentation uses       *)

MaxNameLen == 3
Alphabet == {"L", "a", "_", "Q", "1"}
CollectionNames ==
    UNION {[1..k -> Alphabet] : k \in 0..MaxNameLen}
       \cup {Chars("Linked_Leads"), Chars("Accounts")}

InitLoopVar ==
    /\ collection \in CollectionNames
    /\ derived = NotDerived
    /\ graph = Flow(FALSE, NoConn, "A" :> Act(NoConn, NoConn, NoConn))
    /\ phase = "naming"
    /\ stack = <<>>
    /\ exc = NoExc
    /\ lb = LB_init
    /\ cp = CP_init
    /\ vt = VT_init
    /\ log = <<>>
    /\ doc = <<>>

\* LoopProcessor._process_impl line 53
LoopBuilderDerives ==
    /\ phase = "naming" /\ derived.loop = None
    /\ derived' = [derived EXCEPT !.loop = generate_loop_variable_name(collection)]
    /\ UNCHANGED <<collection, graph, phase, stack, exc, lb, cp, vt, log, doc>>

\* AssignmentProcessor._get_loop_variable outside a loop, lines 243-248
AssignmentDerives ==
    /\ phase = "naming" /\ derived.assignment = None
    /\ derived' = [derived EXCEPT !.assignment = get_loop_variable_fallback(collection)]
    /\ UNCHANGED <<collection, graph, phase, stack, exc, lb, cp, vt, log, doc>>

NextLoopVar == LoopBuilderDerives \/ AssignmentDerives

SpecLoopVar == InitLoopVar /\ [][NextLoopVar]_vars

-----------------------------------------------------------------------------
(* C10 *)

Kept(cs) == {i \in 1..Len(cs) : cs[i] # "_"}
\* the first character of cs that is no underscore
FirstKept(cs) == cs[CHOOSE i \in Kept(cs) : \A j \in Kept(cs) : i <= j]

\* C10: for a collection name with a character other than underscore, the
\* loop builder derives the first such character, lowercased ("Linked_Leads"
\* gives "l", "Accounts" gives "a"); and the assignment renderer's fallback
\* derives the same as the loop builder for every name (both raise IndexError
\* when nothing remains).
C10_LoopVariable ==
    /\ (derived.loop # None /\ Kept(collection) # {}) =>
          derived.loop = LowerChar(FirstKept(collection))
    /\ (derived.loop # None /\ collection = Chars("Linked_Leads")) => derived.loop = "l"
    /\ (derived.loop # None /\ collection = Chars("Accounts")) => derived.loop = "a"
    /\ (derived.loop # None /\ derived.assignment # None) => derived.loop = derived.assignment

\* both derivations ran on a name that starts with an underscore and goes on
\* with a capital letter
C10_Witness ==
    /\ Len(collection) >= 2 /\ collection[1] = "_" /\ collection[2] = "Q"
    /\ derived.loop = "q" /\ derived.assignment = "q"

-----------------------------------------------------------------------------
(* The output model on its own: every sequence of up to MaxCalls calls of    *)
(* the LineBuilder interface on a fresh builder.  log records the calls:     *)
(* a and b are the open procedure and the depth when the call was made, c    *)
(* its argument (for get_formatted_lines: the document it returned), s the   *)
(* exception it raised.                                                      *)

MaxCalls == 5
ProcedureNames == {"P", "Q"}
WriteLines == {Line("stmt", "s"), Line("blank", "")}

CallEv(name, arg, raised) ==
    [ev |-> name, a |-> lb.current_method, b |-> lb.level, c |-> arg, s |-> raised]

InitBuilder ==
    /\ phase = "building"
    /\ lb = LB_init
    /\ log = <<>>
    /\ doc = <<>>
    /\ exc = NoExc
    /\ graph = Flow(FALSE, NoConn, "A" :> Act(NoConn, NoConn, NoConn))
    /\ stack = <<>>
    /\ cp = CP_init
    /\ vt = VT_init
    /\ collection = <<>>
    /\ derived = NotDerived

Building == phase = "building" /\ Len(log) < MaxCalls

\* LineBuilder.add called from outside; exc is what the call raised
CallAdd ==
    /\ Building
    /\ \E line \in WriteLines :
          /\ lb' = [add(lb, line) EXCEPT !.raised = FALSE]
          /\ exc' = IF add_rejects(lb) THEN "RuntimeError" ELSE NoExc
          /\ log' = Append(log, CallEv("add", line, exc'))
    /\ UNCHANGED <<collection, derived, graph, phase, stack, cp, vt, doc>>

CallBeginBlock ==
    /\ Building
    /\ lb' = begin_block(lb)
    /\ exc' = NoExc
    /\ log' = Append(log, CallEv("begin_block", "", NoExc))
    /\ UNCHANGED <<collection, derived, graph, phase, stack, cp, vt, doc>>

CallEndBlock ==
    /\ Building
    /\ lb' = end_block(lb)
    /\ exc' = NoExc
    /\ log' = Append(log, CallEv("end_block", "", NoExc))
    /\ UNCHANGED <<collection, derived, graph, phase, stack, cp, vt, doc>>

CallNewMethod ==
    /\ Building
    /\ \E name \in ProcedureNames :
          /\ lb' = new_method(lb, name, Plain("void"))
          /\ log' = Append(log, CallEv("new_method", name, NoExc))
    /\ exc' = NoExc
    /\ UNCHANGED <<collection, derived, graph, phase, stack, cp, vt, doc>>

CallEndMethod ==
    /\ Building
    /\ lb' = end_method(lb)
    /\ exc' = NoExc
    /\ log' = Append(log, CallEv("end_method", "", NoExc))
    /\ UNCHANGED <<collection, derived, graph, phase, stack, cp, vt, doc>>

CallGetFormattedLines ==
    /\ Building
    /\ lb' = get_formatted_lines(lb)
    /\ doc' = lb'.lines
    /\ exc' = NoExc
    /\ log' = Append(log, CallEv("get_formatted_lines", doc', NoExc))
    /\ UNCHANGED <<collection, derived, graph, phase, stack, cp, vt>>

NextBuilder ==
    \/ CallAdd
    \/ CallBeginBlock
    \/ CallEndBlock
    \/ CallNewMethod
    \/ CallEndMethod
    \/ CallGetFormattedLines

SpecBuilder == InitBuilder /\ [][NextBuilder]_vars

\* the call just made
LastCall == Last(log)
JustCalled(name) == log # <<>> /\ LastCall.ev = name

-----------------------------------------------------------------------------
(* C11 *)

\* C11: a write made before any procedure was opened is appended to the main
\* sequence; once a procedure has been opened, a write made while none is
\* open raises and leaves the main sequence and every procedure sequence as
\* they were; and from the first opening on no call makes the main sequence
\* longer.
C11_MainClosed ==
    [][ /\ (JustCalled("add")' /\ ~lb.method_mode_only) =>
              /\ exc' = NoExc
              /\ lb'.lines = Append(lb.lines, LastCall'.c)
        /\ (JustCalled("add")' /\ lb.method_mode_only /\ lb.current_method = None) =>
              /\ exc' = "RuntimeError"
              /\ lb'.lines = lb.lines
              /\ lb'.methods = lb.methods
        /\ lb.method_mode_only => Len(lb'.lines) <= Len(lb.lines) ]_vars

-----------------------------------------------------------------------------
(* C12 *)

\* the contexts (open procedure, depth) in which the procedures still open
\* after the calls of l were opened, innermost last
RECURSIVE OpenContexts(_)
OpenContexts(l) ==
    IF l = <<>> THEN <<>>
    ELSE LET before == OpenContexts(Front(l))
             e == Last(l)
         IN CASE e.ev = "new_method" -> Append(before, [m |-> e.a, lvl |-> e.b])
              [] e.ev = "end_method" /\ before # <<>> -> Front(before)
              [] OTHER -> before

\* C12: after an end_method that matches a new_method, the open procedure and
\* the depth are the ones that were current right before that new_method,
\* whether it was called inside another procedure or from the main context.
C12_ContextRestored ==
    (JustCalled("end_method") /\ OpenContexts(Front(log)) # <<>>) =>
        LET before == Last(OpenContexts(Front(log)))
        IN /\ lb.current_method = before.m
           /\ lb.level = before.lvl

-----------------------------------------------------------------------------
(* C13 *)

\* the writes that went through, to buffer m, in order
Written(m) == SelectSeq(log, LAMBDA e : e.ev = "add" /\ e.a = m /\ e.s = NoExc)

\* a written line indented by the depth it was written at, a blank one left
\* as it is; extra is the indentation every line of a procedure body gets
Indented(e, extra) == [e.c EXCEPT !.ind = IF IsBlank(e.c) THEN extra ELSE e.b + extra]

\* the procedures in the order they were first opened
RECURSIVE FirstOpened(_)
FirstOpened(l) ==
    IF l = <<>> THEN <<>>
    ELSE LET before == FirstOpened(Front(l))
             e == Last(l)
         IN IF e.ev = "new_method" /\ e.c \notin SeqToSet(before)
            THEN Append(before, e.c) ELSE before

ExpectedBlock(name) ==
    <<[k |-> "mhead", n |-> name, ind |-> 0, rt |-> Plain("void")]>>
      \o [i \in 1..Len(Written(name)) |-> Indented(Written(name)[i], 1)]
      \o <<Line("close", ""), Line("blank", "")>>

RECURSIVE ExpectedBlocks(_)
ExpectedBlocks(names) ==
    IF names = <<>> THEN <<>>
    ELSE ExpectedBlock(names[1]) \o ExpectedBlocks(SubSeq(names, 2, Len(names)))

\* the document the calls made so far describe
ExpectedDoc ==
    [i \in 1..Len(Written(None)) |-> Indented(Written(None)[i], 0)]
      \o ExpectedBlocks(FirstOpened(log))

\* C13: a get_formatted_lines that directly follows another returns the same
\* document; and the document returned holds the main sequence first, then
\* one block per procedure in the order first opened, every line that is not
\* blank indented once by the depth it was written at, and the body of a
\* procedure indented once more.
C13_RenderIdempotent ==
    /\ (Len(log) >= 2 /\ JustCalled("get_formatted_lines")
            /\ log[Len(log) - 1].ev = "get_formatted_lines") =>
          LastCall.c = log[Len(log) - 1].c
    /\ JustCalled("get_formatted_lines") => doc = ExpectedDoc

-----------------------------------------------------------------------------
(* C14 *)

\* C14: at the start of every run on a service, the first or a later one,
\* the chain processor's sets, path and loop stack, the line builder and the
\* variable tracker the traversal reads and writes are as after construction.
C14_FreshState ==
    phase = "init" => (cp = CP_init /\ lb = LB_init /\ vt = VT_init)

-----------------------------------------------------------------------------
(* C15 *)

\* the renderer of x raises a structured error
RendererRaises(x) ==
    graph.elems[x].kind = "recordLookups" /\ ~graph.elems[x].object

\* C15: a structured error raised by the renderer of an element other than
\* start or decision ends only the traversal of that element: it leaves no
\* call but the process_chain of that element, the run does not fail, and
\* the document is returned.
C15_SubtreeOnly ==
    /\ \A i \in Events("unwind") :
          log[i].c = "ElementProcessingError" => (log[i].b = "chain" /\ RendererRaises(log[i].a))
    /\ (\E i \in Events("unwind") : log[i].c = "ElementProcessingError") => phase # "failed"

-----------------------------------------------------------------------------
(* C16 *)

\* C16: a run on a flow whose start element has no name, or that holds a
\* decision without a name, raises to the caller of transpile_flow: it never
\* returns a document.
C16_FatalMissingName ==
    (~graph.start.named \/ "decisions" \in graph.nameless) => phase # "done"

-----------------------------------------------------------------------------
(* C17 *)

\* the loops whose body chain is being traversed, outermost first
BodyLoops ==
    LET fs == SelectSeq(stack, LAMBDA f : f.fn = "loop" /\ f.pc = "body")
    IN [i \in 1..Len(fs) |-> fs[i].el]

ContextIds == [i \in 1..Len(cp.loop_stack) |-> cp.loop_stack[i].loop_id]

\* C17: the loop contexts on the stack are exactly those of the loops whose
\* body chain is being traversed, in nesting order: none of a loop that has
\* not started its body, none of a loop that is in its after-loop chain, none
\* when the run is over.  When a loop renderer is left, by return or by a
\* raise, the loop stack is what it was when the renderer was entered.
C17_LoopContext ==
    [](ContextIds = BodyLoops)
      /\ [][ (stack # <<>> /\ Top.fn = "loop" /\ Len(stack') < Len(stack)) =>
                 cp'.loop_stack = Top.snap.ls ]_vars

\* a run that failed inside the body of a loop nested in the body of another:
\* the raise left both loop renderers
C17_Witness ==
    /\ phase = "failed"
    /\ Cardinality({i \in Events("unwind") : log[i].b = "loop"}) = 2
    /\ cp.loop_stack = <<>>

-----------------------------------------------------------------------------
(* C18 *)

\* process_chain is being entered on the innermost open loop or on an
\* element of the processed set
EnteredOnSeen ==
    /\ At("chain", "enter")
    /\ \/ is_in_loop(cp) /\ Top.el = Last(cp.loop_stack).loop_id
       \/ Top.el \in cp.processed_elements

\* C18: process_chain entered on the innermost open loop, or on an element of
\* the processed set, returns at once: the line builder (lines, procedures,
\* depth) and the chain processor (processed set, path, loop stack) are
\* unchanged, no renderer fires, no connector is followed, nothing is raised.
C18_StopsAtOnce ==
    [][ EnteredOnSeen =>
          /\ lb' = lb
          /\ cp' = cp
          /\ vt' = vt
          /\ stack' = Front(stack)
          /\ exc' = NoExc /\ phase' = phase
          /\ log' = Append(log, Ev("stop", Top.el, "", "")) ]_vars

\* process_chain has just stopped on the back-edge to the loop whose body is
\* being traversed
C18_Witness ==
    /\ log # <<>> /\ Last(log).ev = "stop"
    /\ graph.elems[Last(log).a].kind = "loops"
    /\ is_in_loop(cp) /\ Last(cp.loop_stack).loop_id = Last(log).a

-----------------------------------------------------------------------------
(* C19 *)

\* the edge of event i put something into the output: the code of its target
\* or a call of it
Emitted(i) == Rendered(i) \/ log[i].c = "call"

\* C19: for an element with a normal connector and a default connector, both
\* with a target, the engine's connector step emits nothing for the default
\* connector: neither the target's code nor a call of it.
C19_NormalOnly ==
    \A x \in Names :
       (Usable(graph.elems[x].connector) /\ Usable(graph.elems[x].defaultConnector)) =>
           \A e \in EdgesOf(x, "defaultConnector") : ~Emitted(e)

-----------------------------------------------------------------------------
(* C20 *)

\* the edges the engine's connector step followed through a goto-marked
\* connector, normal, default or fault
GotoEdges ==
    {i \in Events("edge") :
        /\ log[i].b \in {"connector", "defaultConnector", "faultConnector"}
        /\ graph.elems[log[i].s][log[i].b].isGoTo}

\* the procedures the document defines
Defined(d) == {d[j].n : j \in {q \in 1..Len(d) : d[q].k = "mhead"}}

\* C20: a goto-marked connector is rendered as a bare call and the target is
\* not traversed from it; and when the document is returned every name called
\* through a goto-marked connector is a procedure of the document.
C20_GotoDefined ==
    /\ \A i \in GotoEdges : log[i].c = "call"
    /\ phase = "done" => \A i \in GotoEdges : log[i].a \in Defined(doc)

-----------------------------------------------------------------------------
(* C21 *)

\* C21: when the engine has promoted an element for the first time and has
\* closed its procedure, the buffer that was current when the element was
\* reached is current again and its last line is the call of the procedure.
C21_CallWritten ==
    (At("chain", "conn") /\ Top.promoted) =>
        /\ lb.current_method = Top.snap.cm
        /\ Buffer(Top.snap.cm) # <<>>
        /\ Last(Buffer(Top.snap.cm)) = Line("call", Top.el)

-----------------------------------------------------------------------------
(* C22 *)

\* the loops whose renderer ran and that have no collection reference
LoopsWithoutCollection ==
    {x \in Names : /\ graph.elems[x].kind = "loops"
                   /\ ~graph.elems[x].collectionReference.has
                   /\ FireCount(x) >= 1}

\* C22: a loop without a collection reference leaves the diagnostic comment
\* in the output and the traversal goes on along its noMoreValues connector,
\* when that has a target.
C22_LoopContinues ==
    phase = "done" =>
       \A x \in LoopsWithoutCollection :
          /\ Where("comment", "ERROR: No collection reference") # {}
          /\ Usable(graph.elems[x].noMoreValuesConnector) => EdgesOf(x, "noMoreValues") # {}

-----------------------------------------------------------------------------
(* C23 *)

\* the elements the engine reached and found no renderer for
Unrendered == {log[i].a : i \in Events("noproc")}

\* C23: an element without a registered renderer gets no code in the output
\* and none of its connectors is followed.
C23_NoRendererStops ==
    \A x \in Unrendered :
       /\ Where("comment", x) = {} /\ Where("try", x) = {}
       /\ {i \in Events("edge") : log[i].s = x} = {}

-----------------------------------------------------------------------------
(* C24 *)

\* the rules of decision x that have a condition
Conditioned(x) == {i \in DOMAIN graph.elems[x].rules : graph.elems[x].rules[i].cond}

\* C24: a rule without a condition writes nothing, and the branches that are
\* written form a chain: every "} else if (" of a decision has the "if (" of
\* that decision before it in the same buffer, whichever rules were skipped.
C24_RuleChain ==
    phase = "done" =>
       \A x \in Decisions :
          /\ FireCount(x) = 1 =>
                Cardinality(Where("if", x) \cup Where("elseif", x)) = Cardinality(Conditioned(x))
          /\ \A p \in Where("elseif", x) :
                \E q \in Where("if", x) : q[1] = p[1] /\ q[2] < p[2]

-----------------------------------------------------------------------------
(* C25 *)

\* the variable a record lookup stores its result in
\* (record_lookup_processor.py:66-75)
output_name(x) ==
    IF graph.elems[x].outputReference.has /\ graph.elems[x].outputReference.text # ""
    THEN graph.elems[x].outputReference.text ELSE x

\* the record lookups with an object type whose result variable is c
LookupsInto(c) ==
    {x \in Names : /\ graph.elems[x].kind = "recordLookups" /\ graph.elems[x].object
                   /\ output_name(x) = c}

\* the loops whose renderer is about to resolve the type of its collection
ResolvingLoop ==
    /\ At("loop", "start")
    /\ graph.elems[Top.el].collectionReference.has
    /\ graph.elems[Top.el].collectionReference.text # ""

\* C25: the element type of a loop over collection c is the type recorded for
\* c in the tracker without its list wrapper; else the object type of a
\* record lookup whose output variable is c, which is then recorded for c as
\* a list of that type; else SObject.
C25_TypeResolution ==
    ResolvingLoop =>
       LET c == graph.elems[Top.el].collectionReference.text
           det == determine_collection_type(vt, graph, c)
       IN IF get_type(vt, c) # NoType
          THEN det.type = get_type(vt, c).base /\ det.vt = vt
          ELSE IF LookupsInto(c) # {}
               THEN det.type = "Obj" /\ det.vt = add_variable(vt, c, ListOf("Obj"))
               ELSE det.type = "SObject" /\ det.vt = vt

-----------------------------------------------------------------------------
(* C26 *)

\* a step in which process_chain returns to its caller without an exception
ChainReturns ==
    /\ Running /\ Top.fn = "chain"
    /\ exc' = NoExc /\ stack' = Return

\* C26: when process_chain returns normally, the depth, the open procedure,
\* the procedure stack, the loop stack and the current path are what they
\* were when it was called; and the current path and the loop stack are empty
\* when the run is done.
C26_ChainRestores ==
    /\ [][ChainReturns => Snap(lb', cp') = Top.snap]_vars
    /\ [](phase = "done" => (cp.current_path = <<>> /\ cp.loop_stack = <<>>))


\* the traversal of a rule's target has just returned into the decision:
\* meanwhile the target was promoted, so a procedure was opened and closed,
\* and the builder is back in the rule's block of the caller's buffer
C26_Witness ==
    /\ At("decision", "rule_end")
    /\ \E i \in EdgesOf(Top.el, "rule") : Rendered(i) /\ log[i].a \in cp.goto_methods
    /\ lb.level = Top.snap.lvl + 1
    /\ lb.current_method = Top.snap.cm

-----------------------------------------------------------------------------
(* C27 *)

Renders == {i \in 1..Len(log) : log[i].ev = "get_formatted_lines"}

\* the call just made is a render, an earlier call was one too, and a write
\* went through in between
RenderedWrittenRendered ==
    /\ JustCalled("get_formatted_lines")
    /\ \E i \in Renders : \E j \in (i + 1)..(Len(log) - 1) :
          log[j].ev = "add" /\ log[j].s = NoExc

\* the call just made is a render, the one before it a rejected write and the
\* one before that a render
RenderedRejectedRendered ==
    /\ Len(log) >= 3 /\ JustCalled("get_formatted_lines")
    /\ log[Len(log) - 1].ev = "add" /\ log[Len(log) - 1].s # NoExc
    /\ log[Len(log) - 2].ev = "get_formatted_lines"

\* C27: a render that follows writes made after an earlier render returns the
\* document a single render of all the writes would return; and a rejected
\* write between two renders leaves the second equal to the first.
C27_WriteAfterRender ==
    /\ RenderedWrittenRendered => doc = ExpectedDoc
    /\ RenderedRejectedRendered => LastCall.c = log[Len(log) - 2].c

-----------------------------------------------------------------------------
(* C28 *)

\* C28: the procedures of a finished run's document are processFlow and goto
\* targets only, and none of them has an empty body.
C28_ProceduresAreGotoTargets ==
    phase = "done" =>
       /\ Defined(doc) \subseteq {"processFlow"} \cup cp.goto_targets
       /\ \A m \in DOMAIN lb.methods : lb.methods[m] # <<>>

-----------------------------------------------------------------------------
(* C29 *)

BlockOpeners == {"if", "elseif", "else", "for", "try", "catch"}
BlockEnders == {"elseif", "else", "catch", "close"}

\* the positions after i in buffer m at which a block of the same element as
\* the one opened at i is ended
EndsAfter(m, i) ==
    {j \in (i + 1)..Len(Buffer(m)) :
        Buffer(m)[j].n = Buffer(m)[i].n /\ Buffer(m)[j].k \in BlockEnders}

\* the smallest element of a non-empty set of numbers
Least(S) == CHOOSE j \in S : \A q \in S : j <= q

\* C29: in every buffer, the lines between a line that opens a block and the
\* line that ends that block were written at a depth greater than the depth
\* of the opening line.
C29_BodyDeeper ==
    phase = "running" =>
       \A m \in BufferNames : \A i \in 1..Len(Buffer(m)) :
          (Buffer(m)[i].k \in BlockOpeners /\ EndsAfter(m, i) # {}) =>
              \A q \in (i + 1)..(Least(EndsAfter(m, i)) - 1) : Levels(m)[q] > Levels(m)[i]

-----------------------------------------------------------------------------
(* C30 *)

\* the values returned by the return statements of procedure m
ReturnedBy(m) ==
    {lb.methods[m][i].n : i \in {q \in 1..Len(lb.methods[m]) : lb.methods[m][q].k = "return"}}

\* the promoted elements for which two or more outputs are inferred
ManyOutputs ==
    {x \in cp.goto_methods : Len(analyze_function_returns(graph.elems[x])) >= 2}

\* C30: a procedure that holds "return v;" is declared with the type the
\* tracker has for v, which is not void; and a promoted element with two or
\* more inferred outputs is declared void and holds no return statement.
C30_ReturnTyped ==
    /\ \A m \in DOMAIN lb.methods : \A v \in ReturnedBy(m) :
          /\ lb.method_return_types[m] # Plain("void")
          /\ lb.method_return_types[m] = get_type(vt, v)
    /\ \A x \in ManyOutputs :
          lb.method_return_types[x] = Plain("void") /\ ReturnedBy(x) = {}

=============================================================================
